---- MODULE Spec2Model ----
(***************************************************************************)
(* Model of the UIAutoClient command proxy (lib/uiauto-client.js).         *)
(*                                                                         *)
(* The proxy listens on a unix socket.  The instruments peer connects once *)
(* per exchange, sends the result of the previous command, half-closes     *)
(* (the 'end' event), and reads the next command on the same connection.   *)
(* Every event handler runs to completion (single-threaded event loop), so *)
(* each handler is one action.  start() and shutdown() are async functions *)
(* and are split at their awaits.  Callers start a stopped session: start()*)
(* is called when no server is held or the held one never got to listen.   *)
(***************************************************************************)
EXTENDS Integers, Sequences, FiniteSets, TLC

\* ---------------------------------------------------------------- bounds
MaxCmds   == 2      \* number of sendCommand calls
MaxConns  == 2      \* connections alive at the same time (slots are reused)

\* ------------------------------------------------------------- constants
MORE_COMMAND == "#more"
CmdNames     == {"getSession"}
FrameLen     == 2   \* a frame is a status part followed by a value part

Ids    == 1..MaxCmds
Conns  == 1..MaxConns
Status == {0, 1}     \* cb tests result.status === 0 only: 1 stands for every other status
Values == {1, 2}     \* response payloads: the proxy passes them on unread
Syms   == ({"s"} \X Status) \cup ({"v"} \X Values)

NoCmd    == [cmd |-> "none", cb |-> 0]      \* curCommand = null
NoHook   == 0                               \* onReceiveCommand = null
NoConn   == 0                               \* currentSocket = null
NoServer == 0                               \* socketServer = null
TheServer == 1                              \* socketServer = the net.Server of the last start()
NoFuture == [state |-> "none", value |-> 0]
Pending  == [state |-> "pending", value |-> 0]
FreeConn == [st |-> "free", ended |-> FALSE, wrote |-> 0]
Destroyed == [st |-> "destroyed", ended |-> FALSE, wrote |-> 0]

VARIABLES
  curCommand,        \* this.curCommand: the in-flight command or NoCmd
  onReceiveCommand,  \* this.onReceiveCommand: NoHook or the connection the hook closes over
  commandQueue,      \* this.commandQueue
  socketServer,      \* this.socketServer: NoServer or TheServer
  hasConnected,      \* this.hasConnected
  currentSocket,     \* this.currentSocket
  response,          \* the buffer of the UIAutoResponse the last start() created
  server,            \* state of the net.Server the last start() created
  conns,             \* the accepted connections
  startFuture,       \* the promise the last start() returned
  startResolves,     \* how often resolve(true) ran for the last start()
  future,            \* the promise each sendCommand() returned
  cbCalls,           \* how often the completion of each command was invoked
  order,             \* the completions in the order they were invoked
  nextId,            \* the next sendCommand call
  sent,              \* the in-flight command, if its own frame was written on an open connection
  outstanding,       \* completions written to the peer and neither invoked nor torn down
  got,               \* the data received since the dispatch loop last finished an exchange
  abandoned,         \* the commands submitted before a shutdown() and not completed since
  lastShutdown       \* what the last step did to a shutdown() or safeShutdown() promise, if anything

vars == <<curCommand, onReceiveCommand, commandQueue, socketServer, hasConnected,
          currentSocket, response, server, conns, startFuture, startResolves,
          future, cbCalls, order, nextId, sent, outstanding, got, abandoned,
          lastShutdown>>

\* ------------------------------------------------- result accumulator (§4.4)
\* The buffered symbols form a complete frame: a status part, then a value part.
IsFrame(buf) ==
  /\ Len(buf) = FrameLen
  /\ buf[1][1] = "s"
  /\ buf[2][1] = "v"

\* The buffered symbols are the beginning of a frame.
IsFramePrefix(buf) ==
  /\ Len(buf) <= FrameLen
  /\ Len(buf) >= 1 => buf[1][1] = "s"
  /\ Len(buf) >= 2 => buf[2][1] = "v"

\* getResult(): a structured result, or needsMoreData.
getResult(buf) ==
  IF IsFrame(buf)
    THEN [status |-> buf[1][2], value |-> buf[2][2], needsMoreData |-> FALSE]
    ELSE [status |-> -1, value |-> 0, needsMoreData |-> TRUE]

\* The buffer after getResult(): a parsed frame is consumed, an incomplete one is kept.
afterGetResult(buf) == IF IsFrame(buf) THEN <<>> ELSE buf

addData(buf, sym) == Append(buf, sym)

bufferNotReset(buf) == buf

\* resetBuffer(): the buffered data is dropped
resetBuffer(buf) == <<>>

\* ------------------------------------------------------- pieces of the code
cbInverted(fut, result) ==
  IF fut.state # "pending" THEN fut
  ELSE IF result.status # 0
    THEN [state |-> "resolved", value |-> result.value]
    ELSE [state |-> "rejected", value |-> result.value]

\* cb(result) of sendCommand: resolve(result.value) or reject(new Error(result.value)).
\* A promise settles once; later calls are ignored.
cb(fut, result) ==
  IF fut.state # "pending" THEN fut
  ELSE IF result.status = 0
    THEN [state |-> "resolved", value |-> result.value]
    ELSE [state |-> "rejected", value |-> result.value]

\* this.commandQueue.push({cmd, cb})
push(queue, entry) == Append(queue, entry)

unshiftAtTail(queue, entry) == Append(queue, entry)

\* this.commandQueue.unshift({cmd: MORE_COMMAND, cb: this.curCommand.cb})
unshift(queue, entry) == <<entry>> \o queue

pop(queue) == queue[Len(queue)]

\* onReceiveCommand(): this.curCommand = this.commandQueue.shift(), line 115
shift(queue) == Head(queue)

hookKept(hook) == hook

\* onReceiveCommand(): this.onReceiveCommand = null
hookAfterDispatch(hook) == NoHook

curKept(cur) == cur

\* this.curCommand = null after the callback ran, line 105
curAfterFinal(cur) == NoCmd

bufferDropped(buf) == <<>>

\* the accumulator buffer on the needsMoreData branch: the handler leaves it alone
bufferOnNeedsMore(buf) == buf

resolvesAlways(connected) == TRUE

hookIgnored(hook) == FALSE

\* sendCommand: if (_.isFunction(this.onReceiveCommand)), line 55
hookRegistered(hook) == hook # NoHook

\* if (!this.hasConnected) guards resolve(true)
resolvesOnAccept(connected) == ~connected

closesAlways(srv) == TRUE

\* shutdown(): if (this.socketServer) guards the close
closesServer(srv) == srv # NoServer

rethrown(outcome) == outcome

\* safeShutdown: try { await this.shutdown() } catch (err) { log.debug(...) }
caught(outcome) == IF outcome = "error" THEN "absorbed" ELSE outcome

\* conn.on('close'): this.currentSocket = null
socketAfterClose(cur, c) == NoConn

\* ---------------------------------------------------------------- Init
Init ==
  /\ curCommand = NoCmd
  /\ onReceiveCommand = NoHook
  /\ commandQueue = <<>>
  /\ socketServer = NoServer
  /\ hasConnected = FALSE
  /\ currentSocket = NoConn
  /\ response = <<>>
  /\ server = "none"
  /\ conns = [c \in Conns |-> FreeConn]
  /\ startFuture = "none"
  /\ startResolves = 0
  /\ future = [i \in Ids |-> NoFuture]
  /\ cbCalls = [i \in Ids |-> 0]
  /\ order = <<>>
  /\ nextId = 1
  /\ sent = {}
  /\ outstanding = {}
  /\ got = <<>>
  /\ abandoned = {}
  /\ lastShutdown = "none"

\* ------------------------------------------------------------- helpers
Min(a, b) == IF a < b THEN a ELSE b

\* conn.write(frame); conn.end(): one more frame on an open connection; a write on a
\* connection that is no longer open reaches nobody.
written(cs, c) ==
  IF cs[c].st = "open" THEN [cs EXCEPT ![c].wrote = Min(@ + 1, 2)] ELSE cs

\* the commands a write of entry on connection c of cs has reached the peer with
reached(cs, c, entry) ==
  IF cs[c].st = "open" /\ entry.cmd # MORE_COMMAND THEN {entry.cb} ELSE {}

\* the connections that are not yet closed
liveConns == {c \in Conns : conns[c].st # "free"}

\* the slots a new connection can take
freeSlots == {c \in Conns : conns[c].st = "free" /\ onReceiveCommand # c}

\* ------------------------------------------------------------- actions
\* sendCommand(cmd), lines 43-59
sendCommand(name) ==
  /\ nextId <= MaxCmds
  /\ LET id == nextId
         q1 == push(commandQueue, [cmd |-> name, cb |-> id])
     IN /\ future' = [future EXCEPT ![id] = Pending]
        /\ nextId' = nextId + 1
        /\ IF hookRegistered(onReceiveCommand)
             THEN \* the deferred hook runs: lines 113-119
                  /\ onReceiveCommand' = hookAfterDispatch(onReceiveCommand)
                  /\ curCommand' = shift(q1)
                  /\ commandQueue' = Tail(q1)
                  /\ conns' = written(conns, onReceiveCommand)
                  /\ sent' = sent \cup reached(conns, onReceiveCommand, shift(q1))
                  /\ outstanding' = outstanding \cup {shift(q1).cb}
             ELSE /\ commandQueue' = q1
                  /\ UNCHANGED <<onReceiveCommand, curCommand, conns, sent, outstanding>>
  /\ lastShutdown' = "none"
  /\ UNCHANGED <<socketServer, hasConnected, currentSocket, response, server,
                 startFuture, startResolves, cbCalls, order, got, abandoned>>

\* start(), lines 65-69: the promise executor runs up to the first await
start ==
  /\ socketServer = NoServer \/ server = "failed"
  /\ socketServer' = TheServer
  /\ startFuture' = "pending"
  /\ startResolves' = 0
  /\ server' = "preparing"
  /\ response' = <<>>
  /\ got' = <<>>
  /\ lastShutdown' = "none"
  /\ UNCHANGED <<sent, curCommand, onReceiveCommand, commandQueue, hasConnected, currentSocket,
                 conns, future, cbCalls, order, nextId, outstanding, abandoned>>

\* start(), lines 133-139: rimraf and mkdirp succeeded, the server listens on the path
listen ==
  /\ server = "preparing"
  /\ server' = "listening"
  /\ lastShutdown' = "none"
  /\ UNCHANGED <<sent, curCommand, onReceiveCommand, commandQueue, socketServer, hasConnected,
                 currentSocket, response, conns, startFuture, startResolves, future,
                 cbCalls, order, nextId, outstanding, got, abandoned>>

\* start(), lines 133-136: rimraf or mkdirp rejects inside the async executor
fsFail ==
  /\ server = "preparing"
  /\ server' = "failed"
  /\ lastShutdown' = "none"
  /\ UNCHANGED <<sent, curCommand, onReceiveCommand, commandQueue, socketServer, hasConnected,
                 currentSocket, response, conns, startFuture, startResolves, future,
                 cbCalls, order, nextId, outstanding, got, abandoned>>

\* the connection listener, lines 69-84
connection ==
  /\ server = "listening"
  /\ freeSlots # {}
  /\ LET c == CHOOSE x \in freeSlots : \A y \in freeSlots : x <= y
     IN /\ conns' = [conns EXCEPT ![c] = [st |-> "open", ended |-> FALSE, wrote |-> 0]]
        /\ currentSocket' = c
  /\ IF resolvesOnAccept(hasConnected)
       THEN /\ hasConnected' = TRUE
            /\ startFuture' = "true"
            /\ startResolves' = Min(startResolves + 1, 2)
       ELSE UNCHANGED <<hasConnected, startFuture, startResolves>>
  /\ lastShutdown' = "none"
  /\ UNCHANGED <<sent, curCommand, onReceiveCommand, commandQueue, socketServer, response,
                 server, future, cbCalls, order, nextId, outstanding, got, abandoned>>

\* the piped data handler, lines 87-90; the peer sends the parts of a frame
data(c, sym) ==
  /\ conns[c].st = "open"
  /\ ~conns[c].ended
  /\ IsFramePrefix(Append(got, sym))
  /\ response' = addData(response, sym)
  /\ got' = Append(got, sym)
  /\ lastShutdown' = "none"
  /\ UNCHANGED <<sent, curCommand, onReceiveCommand, commandQueue, socketServer, hasConnected,
                 currentSocket, server, conns, startFuture, startResolves, future,
                 cbCalls, order, nextId, outstanding, abandoned>>

\* conn.on('end'), lines 93-125
end(c) ==
  /\ conns[c].st = "open"
  /\ ~conns[c].ended
  /\ LET result   == getResult(response)
         inflight == curCommand # NoCmd
         more     == inflight /\ result.needsMoreData
         final    == inflight /\ ~result.needsMoreData
         q1       == IF more
                       THEN unshift(commandQueue,
                                    [cmd |-> MORE_COMMAND, cb |-> curCommand.cb])
                       ELSE commandQueue
         cur1     == IF final THEN curAfterFinal(curCommand) ELSE curCommand
         out1     == IF final THEN outstanding \ {curCommand.cb} ELSE outstanding
         sent1    == IF final THEN sent \ {curCommand.cb} ELSE sent
         cs1      == [conns EXCEPT ![c].ended = TRUE]
     IN /\ response' = IF ~inflight THEN resetBuffer(response)
                       ELSE IF more THEN bufferOnNeedsMore(afterGetResult(response))
                       ELSE afterGetResult(response)
        /\ got' = IF more THEN got ELSE <<>>
        /\ future' = IF final
                       THEN [future EXCEPT ![curCommand.cb] = cb(@, result)]
                       ELSE future
        /\ cbCalls' = IF final
                        THEN [cbCalls EXCEPT ![curCommand.cb] = Min(@ + 1, 2)]
                        ELSE cbCalls
        /\ abandoned' = IF final THEN abandoned \ {curCommand.cb} ELSE abandoned
        /\ order' = IF final /\ Len(order) <= MaxCmds
                      THEN Append(order, curCommand.cb)
                      ELSE order
        /\ IF Len(q1) > 0
             THEN \* onReceiveCommand() runs at once: lines 113-121
                  /\ onReceiveCommand' = hookAfterDispatch(onReceiveCommand)
                  /\ curCommand' = shift(q1)
                  /\ commandQueue' = Tail(q1)
                  /\ conns' = written(cs1, c)
                  /\ sent' = sent1 \cup reached(cs1, c, shift(q1))
                  /\ outstanding' = out1 \cup {shift(q1).cb}
             ELSE \* the hook is kept for the next sendCommand: line 123
                  /\ onReceiveCommand' = c
                  /\ curCommand' = cur1
                  /\ commandQueue' = q1
                  /\ conns' = cs1
                  /\ sent' = sent1
                  /\ outstanding' = out1
  /\ lastShutdown' = "none"
  /\ UNCHANGED <<socketServer, hasConnected, currentSocket, server, startFuture,
                 startResolves, nextId>>

\* conn.on('close'), lines 82-84
close(c) ==
  /\ conns[c].st # "free"
  /\ conns' = [conns EXCEPT ![c] = FreeConn]
  /\ currentSocket' = socketAfterClose(currentSocket, c)
  /\ lastShutdown' = "none"
  /\ UNCHANGED <<sent, curCommand, onReceiveCommand, commandQueue, socketServer, hasConnected,
                 response, server, startFuture, startResolves, future, cbCalls, order,
                 nextId, outstanding, got, abandoned>>

\* shutdown(), lines 143-157: up to the await of socketServer.close
shutdown ==
  /\ curCommand' = NoCmd
  /\ onReceiveCommand' = NoHook
  /\ outstanding' = {}
  /\ sent' = {}
  /\ abandoned' = {id \in Ids : future[id].state = "pending"}
  /\ conns' = IF currentSocket # NoConn
                THEN [conns EXCEPT ![currentSocket] = Destroyed]
                ELSE conns
  /\ currentSocket' = NoConn
  /\ IF closesServer(socketServer)
       THEN IF socketServer # NoServer /\ server = "listening"
              THEN \* close() stops the listening; its callback comes later
                   /\ server' = "closing"
                   /\ lastShutdown' = "pending"
              ELSE \* close() of a server that is not listening errors
                   /\ lastShutdown' = "error"
                   /\ UNCHANGED server
       ELSE /\ lastShutdown' = "ok"
            /\ UNCHANGED server
  /\ UNCHANGED <<commandQueue, socketServer, hasConnected, response, startFuture,
                 startResolves, future, cbCalls, order, nextId, got>>

\* safeShutdown(), lines 162-169: shutdown() up to the await of socketServer.close, its
\* rejection caught
safeShutdown ==
  /\ curCommand' = NoCmd
  /\ onReceiveCommand' = NoHook
  /\ outstanding' = {}
  /\ sent' = {}
  /\ abandoned' = {id \in Ids : future[id].state = "pending"}
  /\ conns' = IF currentSocket # NoConn
                THEN [conns EXCEPT ![currentSocket] = Destroyed]
                ELSE conns
  /\ currentSocket' = NoConn
  /\ IF closesServer(socketServer)
       THEN IF socketServer # NoServer /\ server = "listening"
              THEN \* close() stops the listening; its callback comes later
                   /\ server' = "closing"
                   /\ lastShutdown' = caught("pending")
              ELSE \* close() of a server that is not listening errors
                   /\ lastShutdown' = caught("error")
                   /\ UNCHANGED server
       ELSE /\ lastShutdown' = caught("ok")
            /\ UNCHANGED server
  /\ UNCHANGED <<commandQueue, socketServer, hasConnected, response, startFuture,
                 startResolves, future, cbCalls, order, nextId, got>>

\* shutdown(), lines 157-159: the close callback ran, this.socketServer = null
closed ==
  /\ server = "closing"
  /\ liveConns = {}
  /\ server' = "closed"
  /\ socketServer' = NoServer
  /\ lastShutdown' = "ok"
  /\ UNCHANGED <<sent, curCommand, onReceiveCommand, commandQueue, hasConnected, currentSocket,
                 response, conns, startFuture, startResolves, future, cbCalls, order,
                 nextId, outstanding, got, abandoned>>

Next ==
  \/ \E name \in CmdNames : sendCommand(name)
  \/ start
  \/ listen
  \/ fsFail
  \/ connection
  \/ \E c \in Conns, sym \in Syms : data(c, sym)
  \/ \E c \in Conns : end(c)
  \/ \E c \in Conns : close(c)
  \/ shutdown
  \/ safeShutdown
  \/ closed

Spec == Init /\ [][Next]_vars

\* The session of the liveness claim: it is started, its filesystem preparation
\* succeeds and shutdown() is never called.
LiveNext ==
  \/ \E name \in CmdNames : sendCommand(name)
  \/ start
  \/ listen
  \/ connection
  \/ \E c \in Conns, sym \in Syms : data(c, sym)
  \/ \E c \in Conns : end(c)
  \/ \E c \in Conns : close(c)

\* a connection the peer has half-closed and that got its command, or that no hook will
\* write on, is closed in the end
exchanged(c) ==
  /\ conns[c].st = "open"
  /\ conns[c].ended
  /\ conns[c].wrote > 0 \/ onReceiveCommand # c

\* The event loop runs the continuation of start(); the peer keeps reconnecting, keeps
\* half-closing its connections and keeps sending the parts of its frame.
LiveSpec ==
  /\ Init
  /\ [][LiveNext]_vars
  /\ WF_vars(start)
  /\ WF_vars(listen)
  /\ SF_vars(connection)
  /\ SF_vars(\E c \in Conns, sym \in Syms : data(c, sym))
  /\ SF_vars(\E c \in Conns : end(c))
  /\ WF_vars(\E c \in Conns : exchanged(c) /\ close(c))

\* ------------------------------------------------------------ properties
\* the step is the 'end' handler of connection c
EndStep(c) ==
  /\ conns[c].st = "open" /\ ~conns[c].ended
  /\ conns'[c].st = "open" /\ conns'[c].ended

\* the step is the connection listener
AcceptStep == \E c \in Conns : conns[c].st = "free" /\ conns'[c].st = "open"

\* the step invokes a completion
Completes(id) == cbCalls'[id] # cbCalls[id]

\* what a completion makes of a whole frame
Outcome(frame) ==
  [state |-> IF frame[1][2] = 0 THEN "resolved" ELSE "rejected", value |-> frame[2][2]]

\* the entries of the in-flight marker and of the queue that hold completion id
Refs(id) ==
  (IF curCommand.cb = id THEN 1 ELSE 0)
    + Cardinality({i \in 1..Len(commandQueue) : commandQueue[i].cb = id})

\* C1: at most one command is in flight (written to the peer, its completion neither
\* invoked nor torn down), and a dispatch replaces an in-flight command only when its
\* completion is invoked in that step or by the '#more' continuation that carries the
\* same completion.
C1_NonPipelined ==
  /\ [](Cardinality(outstanding) <= 1)
  /\ [][(curCommand # NoCmd /\ curCommand' # NoCmd /\ curCommand' # curCommand)
          => \/ Completes(curCommand.cb)
             \/ curCommand' = [cmd |-> MORE_COMMAND, cb |-> curCommand.cb]]_vars

\* C1 witness: a continuation is in flight while a later command waits in the queue
C1_Witness ==
  /\ curCommand.cmd = MORE_COMMAND
  /\ Len(commandQueue) >= 1
  /\ outstanding = {curCommand.cb}

\* C2: completions are invoked in submission order: unless a shutdown dropped a pending
\* command, the i-th completion invoked is the one of the i-th command submitted
\* (whatever the status of the responses and the number of '#more' rounds).
C2_SubmissionOrder ==
  \A i \in 1..Len(order) :
    /\ i > 1 => order[i - 1] < order[i]
    /\ abandoned = {} => order[i] = i

\* C2 witness: two commands were submitted and both completed, the first one first
C2_Witness ==
  /\ abandoned = {}
  /\ Len(order) >= 2
  /\ \A i \in 1..2 : future[i].state = "resolved"

\* C3: a completion is invoked at most once, and only by an 'end' handler that finds the
\* command (or its continuation) in flight and gets a final result; no completion is held
\* by two entries of in-flight marker and queue.
C3_AtMostOnce ==
  /\ [](\A id \in Ids : cbCalls[id] <= 1 /\ Refs(id) <= 1)
  /\ [][\A id \in Ids : Completes(id) =>
          /\ \E c \in Conns : EndStep(c)
          /\ curCommand.cb = id
          /\ IsFrame(response)]_vars

\* C3 witness: the first completion was invoked once and the second command is in a
\* continuation round
C3_Witness ==
  /\ \E id \in Ids : cbCalls[id] = 1
  /\ curCommand.cmd = MORE_COMMAND
  /\ cbCalls[curCommand.cb] = 0

\* the step is a sendCommand call
SendStep == nextId' = nextId + 1

\* command id waits in the pending queue
Queued(id) == \E i \in 1..Len(commandQueue) : commandQueue[i].cb = id

\* C4: without a shutdown and with a peer that keeps reconnecting and sending, the frame
\* of every submitted command is eventually written to the peer
C4_WrittenToPeer ==
  \A id \in Ids : (future[id].state = "pending") ~> (id \in sent)

\* What holds of the code instead: every submitted command eventually leaves the queue
\* and its completion is eventually invoked; a command submitted while the hook is
\* registered is dispatched by that sendCommand call, any other one is appended to the
\* queue and leaves it in an 'end' handler.
Live_Completion ==
  /\ \A id \in Ids : (future[id].state = "pending") ~> (~Queued(id) /\ cbCalls[id] = 1)
  /\ [][SendStep =>
          IF onReceiveCommand # NoHook
            THEN /\ curCommand'.cb = nextId
                 /\ curCommand'.cmd \in CmdNames
                 /\ commandQueue' = <<>>
                 /\ onReceiveCommand' = NoHook
            ELSE /\ Len(commandQueue') = Len(commandQueue) + 1
                 /\ commandQueue'[Len(commandQueue')].cb = nextId
                 /\ UNCHANGED <<curCommand, conns>>]_vars
  /\ [][\A id \in Ids : (Queued(id) /\ ~Queued(id)') =>
          (curCommand'.cb = id /\ \E c \in Conns : EndStep(c))]_vars

\* C5: an 'end' handler that gets a final result with status 0 and payload P fulfills the
\* in-flight command's future with P, one with another status and payload E rejects it
\* with E; the command leaves the in-flight marker and no other future changes.
C5_ResultMapping ==
  [][\A c \in Conns :
       (EndStep(c) /\ curCommand # NoCmd /\ IsFrame(response)) =>
         /\ future'[curCommand.cb] =
              [state |-> IF response[1][2] = 0 THEN "resolved" ELSE "rejected",
               value |-> response[2][2]]
         /\ \A j \in Ids \ {curCommand.cb} : future'[j] = future[j]
         /\ curCommand' = IF commandQueue = <<>> THEN NoCmd ELSE Head(commandQueue)]_vars

\* C5 witness: one future was fulfilled and another rejected, with different payloads
C5_Witness ==
  \E i, j \in Ids :
    /\ future[i].state = "resolved"
    /\ future[j].state = "rejected"
    /\ future[i].value # future[j].value

\* C6: when the parts received over several 'end' events make up a frame, the command
\* settles as the whole frame would settle it; an 'end' event that needs more data
\* invokes no completion, settles no future and dispatches only the continuation, ahead
\* of the queue.
C6_Reassembly ==
  [][\A c \in Conns :
       /\ (EndStep(c) /\ curCommand.cmd = MORE_COMMAND /\ IsFrame(got)) =>
            future'[curCommand.cb] = Outcome(got)
       /\ (EndStep(c) /\ curCommand # NoCmd /\ ~IsFrame(got)) =>
            /\ cbCalls' = cbCalls
            /\ future' = future
            /\ curCommand' = [cmd |-> MORE_COMMAND, cb |-> curCommand.cb]
            /\ commandQueue' = commandQueue]_vars

\* C6 witness: after a continuation round the frame is complete while another command
\* waits in the queue
C6_Witness ==
  /\ curCommand.cmd = MORE_COMMAND
  /\ IsFrame(response)
  /\ Len(commandQueue) >= 1

\* C7: after a shutdown no completion of a command submitted before it is invoked
C7_NoCompletionAfterShutdown ==
  [][\A id \in abandoned : ~Completes(id)]_vars

\* C8: the future of start() is fulfilled by resolve(true) only, run once, by the
\* connection listener at the first connection the session accepts; no later connection
\* and no other step changes it.
C8_StartFuture ==
  /\ [](/\ startResolves <= 1
        /\ startFuture = "true" <=> startResolves = 1
        /\ startFuture = "true" => hasConnected)
  /\ [][/\ (startFuture = "pending" /\ startFuture' # "pending") =>
             AcceptStep /\ ~hasConnected /\ startFuture' = "true"
        /\ (startFuture = "true" /\ startFuture' # "true") => (start /\ startFuture' = "pending")
        /\ (AcceptStep /\ ~hasConnected) => startFuture' = "true"
        /\ (AcceptStep /\ hasConnected) => UNCHANGED <<startFuture, startResolves>>]_vars

\* C8 witness: the future is fulfilled and a second connection was accepted
C8_Witness ==
  /\ startFuture = "true"
  /\ startResolves = 1
  /\ Cardinality({c \in Conns : conns[c].st = "open"}) >= 2

\* C9: the future of a start(), also of one made after a shutdown, is fulfilled once its
\* server has accepted a connection
C9_RestartFulfils ==
  liveConns # {} => startFuture = "true"

\* C10: a shutdown() made in succession to one that completed without error touches no
\* socket, does not fail and leaves in-flight marker, hook, current connection and
\* listening socket empty; shutdown() fails only in closing a server that does not listen.
C10_ShutdownIdempotent ==
  /\ [][(shutdown /\ lastShutdown = "ok") =>
          /\ conns' = conns
          /\ server' = server
          /\ lastShutdown' = "ok"
          /\ curCommand' = NoCmd
          /\ onReceiveCommand' = NoHook
          /\ currentSocket' = NoConn
          /\ socketServer' = NoServer]_vars
  /\ [][(shutdown /\ lastShutdown' = "error") =>
          socketServer # NoServer /\ server # "listening"]_vars

\* C10 witness: a shutdown completed after a connection-end handler ran late, so the
\* next shutdown finds a hook to clear but no socket
C10_Witness ==
  /\ lastShutdown = "ok"
  /\ server = "closed"
  /\ onReceiveCommand # NoHook
  /\ currentSocket = NoConn
  /\ socketServer = NoServer

\* C11: when the filesystem preparation of start() fails, the future start() returned is
\* rejected (it does not stay pending)
C11_FsFailureRejects ==
  server = "failed" => startFuture = "rejected"

\* C12: safeShutdown() never rejects: its future is fulfilled at once, also when closing
\* the listening socket errors, or stays pending until the close callback fulfills it; it
\* clears the in-flight marker and the hook and ends and destroys the current connection
\* as shutdown() does, and leaves the listening socket reference as it is when the close
\* errors.
C12_SafeShutdownNeverRejects ==
  [][safeShutdown =>
       /\ lastShutdown' \in {"ok", "absorbed", "pending"}
       /\ curCommand' = NoCmd
       /\ onReceiveCommand' = NoHook
       /\ currentSocket' = NoConn
       /\ currentSocket # NoConn => conns'[currentSocket] = Destroyed
       /\ \A c \in Conns \ {currentSocket} : conns'[c] = conns[c]
       /\ socketServer' = socketServer
       /\ (lastShutdown' = "pending") = (server = "listening" /\ server' = "closing")
       /\ lastShutdown' = "absorbed" => server' = server]_vars

\* C12 witness: a safeShutdown() absorbed the error of closing a server that had not yet
\* begun to listen, after destroying the current connection of the session before
C12_Witness ==
  /\ lastShutdown = "absorbed"
  /\ socketServer # NoServer
  /\ \E c \in Conns : conns[c] = Destroyed

\* C13: an 'end' handler that finds a command in flight and an incomplete buffer writes,
\* in that same step and on its own connection, the '#more' continuation with the
\* completion of the in-flight command, whatever waits in the queue; the queue is left as
\* it was, nothing else is written, and no '#more' entry stays in the queue between events.
C13_ContinuationPriority ==
  /\ [](\A i \in 1..Len(commandQueue) : commandQueue[i].cmd # MORE_COMMAND)
  /\ [][\A c \in Conns :
          (EndStep(c) /\ curCommand # NoCmd /\ ~IsFrame(response)) =>
            /\ curCommand' = [cmd |-> MORE_COMMAND, cb |-> curCommand.cb]
            /\ conns'[c].wrote = conns[c].wrote + 1
            /\ \A d \in Conns \ {c} : conns'[d] = conns[d]
            /\ commandQueue' = commandQueue]_vars

\* C13 witness: the continuation was written on an ended connection while half a frame is
\* buffered and a later command waits in the queue
C13_Witness ==
  /\ curCommand.cmd = MORE_COMMAND
  /\ Len(response) = 1
  /\ Len(commandQueue) >= 1
  /\ \E c \in Conns : conns[c].st = "open" /\ conns[c].ended /\ conns[c].wrote = 1

\* C14: every command frame is written on the connection tracked as current at the moment
\* of the write, and that connection is open: when the hook fires inside sendCommand and
\* when an 'end' handler dispatches directly
C14_WrittenOnCurrent ==
  [][/\ (SendStep /\ onReceiveCommand # NoHook) =>
          /\ currentSocket = onReceiveCommand
          /\ conns[onReceiveCommand].st = "open"
     /\ \A c \in Conns :
          (EndStep(c) /\ conns'[c].wrote > conns[c].wrote) => currentSocket = c]_vars

\* the step is the 'close' handler of connection c
CloseStep(c) == conns[c].st # "free" /\ conns'[c].st = "free"

\* C15: accepting a connection makes it the tracked one, and the tracked reference is
\* cleared only by the close of that same connection or by a shutdown; a shutdown ends
\* and destroys the tracked connection
C15_CurrentTracking ==
  [][/\ \A c \in Conns :
          (conns[c].st = "free" /\ conns'[c].st = "open") => currentSocket' = c
     /\ (currentSocket # NoConn /\ currentSocket' = NoConn) =>
          \/ CloseStep(currentSocket)
          \/ (shutdown \/ safeShutdown) /\ conns'[currentSocket] = Destroyed]_vars

\* C16: an 'end' handler that finds the queue empty after handling the result registers
\* the hook; the next sendCommand call then moves its command into the in-flight marker,
\* writes its frame on the held connection and clears the hook in that same call; a
\* sendCommand call made when no hook is registered appends to the tail of the queue and
\* writes nothing.
C16_DeferredHook ==
  [][/\ \A c \in Conns :
          (EndStep(c) /\ commandQueue = <<>>
             /\ ~(curCommand # NoCmd /\ ~IsFrame(response))) =>
            /\ onReceiveCommand' = c
            /\ conns'[c].wrote = conns[c].wrote
     /\ (SendStep /\ onReceiveCommand # NoHook) =>
          /\ curCommand'.cb = nextId
          /\ curCommand'.cmd \in CmdNames
          /\ ~Queued(nextId)'
          /\ conns'[onReceiveCommand].wrote = conns[onReceiveCommand].wrote + 1
          /\ onReceiveCommand' = NoHook
     /\ (SendStep /\ onReceiveCommand = NoHook) =>
          /\ Len(commandQueue') = Len(commandQueue) + 1
          /\ commandQueue'[Len(commandQueue')].cb = nextId
          /\ SubSeq(commandQueue', 1, Len(commandQueue)) = commandQueue
          /\ UNCHANGED <<curCommand, conns>>]_vars

\* C17: an 'end' handler that finds no command in flight drops the buffered data, invokes
\* no completion and settles no future, and still dispatches: the head of a non-empty queue
\* is written on that connection, otherwise the hook is registered; the command so
\* dispatched is completed by the 'end' handler that finds its whole frame.
C17_UnsolicitedFrame ==
  [][\A c \in Conns :
       /\ (EndStep(c) /\ curCommand = NoCmd) =>
            /\ response' = <<>>
            /\ cbCalls' = cbCalls
            /\ future' = future
            /\ IF commandQueue # <<>>
                 THEN /\ curCommand' = Head(commandQueue)
                      /\ commandQueue' = Tail(commandQueue)
                      /\ conns'[c].wrote = conns[c].wrote + 1
                 ELSE /\ onReceiveCommand' = c
                      /\ curCommand' = NoCmd
                      /\ commandQueue' = <<>>
                      /\ conns'[c].wrote = conns[c].wrote
       /\ (EndStep(c) /\ curCommand.cmd \in CmdNames /\ IsFrame(response)) =>
            /\ Completes(curCommand.cb)
            /\ future'[curCommand.cb].state # "pending"]_vars

\* C17 witness: the first command, submitted before the session had a connection, was
\* completed after its dispatch by an 'end' handler that found nothing in flight
C17_Witness ==
  /\ hasConnected
  /\ abandoned = {}
  /\ order = <<1>>
  /\ curCommand = NoCmd
  /\ onReceiveCommand # NoHook
  /\ \E c \in Conns : conns[c].st = "open" /\ conns[c].ended /\ conns[c].wrote = 1

\* C18: at most one frame is written on a connection (a write is conn.write followed at
\* once by conn.end), by the 'end' handler of that connection or by the hook that handler
\* registered; a connection that got its frame holds no hook that would write on it again.
C18_OneFramePerConnection ==
  /\ [](\A c \in Conns : conns[c].wrote <= 1 /\ (conns[c].wrote = 1 => onReceiveCommand # c))
  /\ [][\A c \in Conns :
          (conns'[c].wrote > conns[c].wrote) =>
            /\ conns[c].wrote = 0
            /\ EndStep(c) \/ (SendStep /\ onReceiveCommand = c /\ conns[c].ended)]_vars

\* C18 witness: every connection is open and got one frame, the last of them the
\* continuation of the command written on an earlier one
C18_Witness ==
  /\ \A c \in Conns : conns[c].st = "open" /\ conns[c].ended /\ conns[c].wrote = 1
  /\ curCommand.cmd = MORE_COMMAND
  /\ onReceiveCommand = NoHook
  /\ abandoned = {}

\* C19: while the hook is registered no command is in flight and the queue is empty; the
\* hook is registered only by the 'end' handler of the connection it holds, and is
\* cleared only by its firing in sendCommand, by a direct dispatch or by a shutdown.
C19_IdleHook ==
  /\ [](onReceiveCommand # NoHook => (curCommand = NoCmd /\ commandQueue = <<>>))
  /\ [][/\ (onReceiveCommand' # onReceiveCommand /\ onReceiveCommand' # NoHook) =>
             EndStep(onReceiveCommand')
        /\ (onReceiveCommand # NoHook /\ onReceiveCommand' = NoHook) =>
             \/ SendStep /\ curCommand'.cb = nextId
             \/ \E c \in Conns : EndStep(c) /\ conns'[c].wrote > conns[c].wrote
             \/ shutdown
             \/ safeShutdown]_vars

\* C19 witness: every command was submitted and completed and the loop idles on the hook
C19_Witness ==
  /\ onReceiveCommand # NoHook
  /\ nextId > MaxCmds
  /\ \A id \in Ids : cbCalls[id] = 1

====
